---------------------------- MODULE Spec2Model ----------------------------
(***************************************************************************)
(* A model of hgl71964/omelette:                                           *)
(*   src/rejoice/lib.py  Language: the e-graph encoding protocol           *)
(*   src/ppo.py          parse_args / main: the PPO rollout and update loop*)
(*                                                                         *)
(* Six specifications share the variables below:                           *)
(*   SpecEnc      encode_egraph / encode_node / decode_node on e-graphs    *)
(*   SpecGae      the advantage computation of one rollout                 *)
(*   SpecRollout  the rollout loop with its buffers and episode reporting  *)
(*   Spec         the control flow of main: rollouts and the update loop   *)
(*   SpecBatch    one rollout's storage, its flattening and its minibatches*)
(*   SpecLive     Spec with every step of main taken in the end            *)
(* Python indices are 0-based; sequences here are 1-based, so slot i of a  *)
(* tensor is element i+1 of the sequence that models it.                   *)
(***************************************************************************)
EXTENDS Integers, Sequences, FiniteSets, TLC

VARIABLES
    enc_pc,     \* "input", "encoded" (encode_egraph returned), "decoded" (viz_egraph ran)
    egraph,     \* the e-graph handed to encode_egraph (classes in iteration order)
    data,       \* the geom.data.Data encode_egraph returned
    decoded,    \* viz_egraph: decode_node of every row of data.x
    gae_pc,     \* "start", "loop" (inside the backward loop), "done"
    args_gae,   \* args.gae, args.gamma, args.gae_lambda
    rollout,    \* one environment's column of the buffers: rewards, values, dones,
                \* and the bootstrap next_value, next_done
    t,          \* the backward loop's index
    lastgaelam, \* the running advantage of the GAE branch
    advantages, \* advantages[t], one environment's column
    returns,    \* returns[t], one environment's column
    args,       \* parse_args(): the configuration
    pc,         \* where main is
    update,     \* the rollout loop's counter
    step,       \* the step loop's counter
    global_step,
    epoch,      \* the epoch loop's counter
    start,      \* the minibatch loop's counter
    approx_kl_over, \* approx_kl > args.target_kl, for approx_kl as last assigned
    grad_steps, \* history: the optimizer.step() calls made so far
    kl_hit,     \* history: some minibatch of this rollout had approx_kl > target_kl
    kl_hit_end, \* history: so had the last minibatch of an epoch of this rollout
    actions,    \* actions[step][env]
    rewards,    \* rewards[step][env]
    episode,    \* per environment, RecordEpisodeStatistics' return r and length l of
                \* the running episode; history: its last num_steps (action, reward)
    info,       \* the info envs.step returned last
    reported,   \* the episodes the last step wrote to the writer
    printed,    \* the (action, reward) lists the last step printed
    next_obs,   \* the Batch of the environments' current observations
    obs,        \* obs[step]: the Batch the step's actions were computed from
    logprobs,   \* logprobs[step][env]
    values,     \* values[step][env]
    advantages2d, \* advantages[step][env], all environments
    returns2d,  \* returns[step][env], all environments
    taken,      \* history: per (step, env), what the agent saw and answered
    flat,       \* b_obs, b_logprobs, b_actions, b_advantages, b_returns, b_values
    b_inds,     \* the index array the epochs shuffle
    mb,         \* the last minibatch: mb_inds and what it selected
    chunks      \* history: the mb_inds of the minibatches of the current epoch

encVars == <<enc_pc, egraph, data, decoded>>
gaeVars == <<gae_pc, args_gae, rollout, t, lastgaelam, advantages, returns>>
ctlVars == <<args, pc, update, step, global_step, epoch, start,
             approx_kl_over, grad_steps, kl_hit, kl_hit_end>>
rollVars == <<actions, rewards, episode, info, reported, printed>>
batchVars == <<next_obs, obs, logprobs, values, advantages2d, returns2d,
               taken, flat, b_inds, mb, chunks>>

vars == <<enc_pc, egraph, data, decoded,
          gae_pc, args_gae, rollout, t, lastgaelam, advantages, returns,
          args, pc, update, step, global_step, epoch, start,
          approx_kl_over, grad_steps, kl_hit, kl_hit_end,
          actions, rewards, episode, info, reported, printed,
          next_obs, obs, logprobs, values, advantages2d, returns2d,
          taken, flat, b_inds, mb, chunks>>

-----------------------------------------------------------------------------
(* Bounds of the e-graph inputs.                                           *)
MaxClasses == 2
MaxNodes == 3
(* The rollout length the advantage computation is run on.                 *)
GaeSteps == 3
(* Bounds of the configurations main is run with.                          *)
MaxEnvs == 2
MaxSteps == 2
MaxMinibatches == 3
MaxEpochs == 2
MaxTimesteps == 8
(* The rollouts run when the buffers are followed step by step, and the    *)
(* largest buffer (num_steps * num_envs) followed so.                      *)
RolloutsRun == 2
MaxCells == 4

(* Generic helpers.                                                        *)
Max(a, b) == IF a >= b THEN a ELSE b
Min(a, b) == IF a <= b THEN a ELSE b

RECURSIVE SumSeq(_)
SumSeq(s) == IF s = <<>> THEN 0 ELSE Head(s) + SumSeq(Tail(s))

-----------------------------------------------------------------------------
(* The operator vocabulary: all_operators() is left to the concrete        *)
(* language; each operator is a NamedTuple type with a name and its        *)
(* argument fields (op_tuple).                                             *)
all_operators == << [name |-> "Add", arity |-> 2],
                    [name |-> "Neg", arity |-> 1] >>

num_node_features == 4 + Len(all_operators)

(* torch.zeros(...) is a float32 tensor: storing a Python int in a slot    *)
(* rounds it to the nearest float32 (24-bit significand, ties to even).    *)
RECURSIVE Ulp(_, _)
Ulp(m, u) == IF m < 16777216 * u THEN u ELSE Ulp(m, 2 * u)

Float32(v) ==
    LET m == IF v < 0 THEN -v ELSE v
        u == Ulp(m, 1)
        q == m \div u
        r == m % u
        up == (2 * r > u) \/ (2 * r = u /\ q % 2 = 1)
        rounded == IF up THEN (q + 1) * u ELSE q * u
    IN  IF v < 0 THEN -rounded ELSE rounded

zeros(n) == [i \in 1..n |-> 0]

(* onehot[i] = v, i a Python index.                                        *)
SetSlot(row, i, v) == [row EXCEPT ![i + 1] = Float32(v)]

(* isinstance(operator, int)                                               *)
IsInt(node) == node.tag = "int"

(* The indices ind of all_operators() with isinstance(operator, op).       *)
MatchingOps(node) == {ind \in 0..(Len(all_operators) - 1) : node.op = ind + 1}

(* encode_node with the scalar branch falling through to "is an enode".    *)
encode_node_scalar_enode(operator) ==
    LET onehot == zeros(num_node_features)
    IN  IF IsInt(operator)
        THEN SetSlot(SetSlot(SetSlot(onehot, 1, 1), 2, 1), 3, operator.value)
        ELSE SetSlot(SetSlot(onehot, 1, 1), 4 + (operator.op - 1), 1)

encode_node(operator) ==
    LET onehot == zeros(num_node_features)
    IN  IF IsInt(operator)
        THEN SetSlot(SetSlot(onehot, 2, 1), 3, operator.value)
        ELSE LET enode == SetSlot(onehot, 1, 1)
                 hits == MatchingOps(operator)
             IN  IF hits = {}
                 THEN "Failed to encode node"
                 ELSE LET ind == CHOOSE i \in hits : \A j \in hits : i <= j
                      IN  SetSlot(enode, 4 + ind, 1)

(* encode_eclass that forgets onehot[0] = 1.                               *)
encode_eclass_unset == zeros(num_node_features)

encode_eclass == SetSlot(zeros(num_node_features), 0, 1)

(* An argmax that always answers index 0.                                  *)
ArgMaxOps_first(node) == 0

(* torch.argmax(node[4:]): the first index holding the maximum.            *)
ArgMaxOps(node) ==
    LET n == Len(node) - 4
        best(i) == \A j \in 0..(n - 1) : node[4 + i + 1] >= node[4 + j + 1]
    IN  CHOOSE i \in 0..(n - 1) : best(i) /\ \A j \in 0..(i - 1) : ~best(j)

decode_node(node) ==
    LET dnode == [type |-> IF node[1] = 1 THEN "eclass" ELSE "enode",
                  is_scalar |-> node[3] # 0,
                  value |-> node[4]]
    IN  IF node[2] = 1
        THEN dnode @@ [op |-> all_operators[ArgMaxOps(node) + 1].name]
        ELSE dnode

-----------------------------------------------------------------------------
(* An e-graph: egraph.classes() as the sequence of its items in iteration  *)
(* order, each [id, nodes]; a node is a scalar [tag |-> "int", value] or   *)
(* an operator tuple [tag |-> "op", op, args], op the position of its type *)
(* in all_operators() and args the child eclass ids, in field order.       *)
Ids(g) == {g[i].id : i \in 1..Len(g)}

(* eclass_to_ind after the first loop: id -> row index.                    *)
eclass_to_ind(g) ==
    [id \in Ids(g) |-> (CHOOSE i \in 1..Len(g) : g[i].id = id) - 1]

(* The (eclass_id, node) pairs in the order the second loop visits them.   *)
RECURSIVE NodesInOrder(_)
NodesInOrder(g) ==
    IF g = <<>> THEN <<>>
    ELSE [k \in 1..Len(Head(g).nodes) |->
             [eclass_id |-> Head(g).id, node |-> Head(g).nodes[k]]]
         \o NodesInOrder(Tail(g))

(* NodeEdges with the argument edges pointing from the child eclass.       *)
NodeEdges_reversed(eclass_id, node, me, ind) ==
    <<  <<ind[eclass_id], me>>  >>
    \o (IF IsInt(node) THEN <<>>
        ELSE [k \in 1..Len(node.args) |-> <<ind[node.args[k]], me>>])

(* The edges one node adds: its membership edge, then one edge per child.  *)
NodeEdges(eclass_id, node, me, ind) ==
    <<  <<ind[eclass_id], me>>  >>
    \o (IF IsInt(node) THEN <<>>
        ELSE [k \in 1..Len(node.args) |-> <<me, ind[node.args[k]]>>])

NodeEdgeAttrs(node) ==
    <<  <<0, 1>>  >>
    \o (IF IsInt(node) THEN <<>> ELSE [k \in 1..Len(node.args) |-> <<1, 0>>])

(* The second loop, over the pending (eclass_id, node) pairs.              *)
RECURSIVE EncodeNodes(_, _, _)
EncodeNodes(pending, acc, ind) ==
    IF pending = <<>> THEN acc
    ELSE LET p == Head(pending)
             me == Len(acc.all_nodes)
         IN  EncodeNodes(Tail(pending),
                 [all_nodes |-> Append(acc.all_nodes, encode_node(p.node)),
                  all_edges |-> acc.all_edges \o NodeEdges(p.eclass_id, p.node, me, ind),
                  edge_attr |-> acc.edge_attr \o NodeEdgeAttrs(p.node)],
                 ind)

(* torch_geometric.utils.add_remaining_self_loops(edge_index, edge_attr):  *)
(* with num_nodes not given the node count is the largest index + 1; the   *)
(* edges that are not self-loops are kept in order, then one loop (i, i)   *)
(* per node follows, carrying the attribute of an existing loop at i or    *)
(* else fill_value (1 in every slot).                                      *)
SelectSeq2(s, keep) ==
    LET F[i \in 0..Len(s)] ==
            IF i = 0 THEN <<>>
            ELSE IF i \in keep THEN Append(F[i - 1], s[i]) ELSE F[i - 1]
    IN  F[Len(s)]

add_remaining_self_loops(edge_index, edge_attr) ==
    LET idx == {edge_index[k][1] : k \in 1..Len(edge_index)}
               \cup {edge_index[k][2] : k \in 1..Len(edge_index)}
        N == (CHOOSE m \in idx : \A j \in idx : j <= m) + 1
        keep == {k \in 1..Len(edge_index) : edge_index[k][1] # edge_index[k][2]}
        loops(i) == {k \in 1..Len(edge_index) :
                        edge_index[k][1] = i /\ edge_index[k][2] = i}
        loop_attr(i) == IF loops(i) = {} THEN <<1, 1>>
                        ELSE edge_attr[CHOOSE k \in loops(i) : \A j \in loops(i) : j <= k]
    IN  [edge_index |-> SelectSeq2(edge_index, keep) \o [i \in 1..N |-> <<i - 1, i - 1>>],
         edge_attr |-> SelectSeq2(edge_attr, keep) \o [i \in 1..N |-> loop_attr(i - 1)]]

encode_egraph(g) ==
    LET ind == eclass_to_ind(g)
        first == [all_nodes |-> [i \in 1..Len(g) |-> encode_eclass],
                  all_edges |-> <<>>, edge_attr |-> <<>>]
        acc == EncodeNodes(NodesInOrder(g), first, ind)
        looped == add_remaining_self_loops(acc.all_edges, acc.edge_attr)
    IN  [x |-> acc.all_nodes,
         edge_index |-> looped.edge_index,
         edge_attr |-> looped.edge_attr]

-----------------------------------------------------------------------------
(* The e-graphs the encoder is run on: 1..MaxClasses non-empty classes,    *)
(* at most MaxNodes nodes in all, every child id a class of the graph.     *)
ScalarValues == {3, 16777217}

SeqsOf(S, n) == [1..n -> S]

NodeUniverse(ids) ==
    {[tag |-> "int", value |-> v] : v \in ScalarValues}
    \cup UNION {{[tag |-> "op", op |-> k, args |-> a] :
                    a \in SeqsOf(ids, all_operators[k].arity)} :
                k \in 1..Len(all_operators)}

(* Class ids in iteration order: ascending or descending, so that an id    *)
(* differs from the row index it is mapped to.                             *)
IdOrders(E) == {[i \in 1..E |-> i], [i \in 1..E |-> E + 1 - i]}

Sizes(E) == {sz \in [1..E -> 1..MaxNodes] : SumSeq(sz) <= MaxNodes}

Offset(sz, i) == SumSeq(SubSeq(sz, 1, i - 1))

MakeEGraph(ids, sz, ns) ==
    [i \in 1..Len(ids) |->
        [id |-> ids[i],
         nodes |-> SubSeq(ns, Offset(sz, i) + 1, Offset(sz, i) + sz[i])]]

-----------------------------------------------------------------------------
(* SpecEnc: encode an e-graph, then decode every row as viz_egraph does.   *)
NoData == [x |-> <<>>, edge_index |-> <<>>, edge_attr |-> <<>>]

(* The variables of a part the specification at hand does not run.         *)
EncIdle ==
    /\ enc_pc = "idle"
    /\ egraph = <<>>
    /\ data = NoData
    /\ decoded = <<>>

GaeIdle ==
    /\ gae_pc = "idle"
    /\ args_gae = <<>>
    /\ rollout = <<>>
    /\ t = 0
    /\ lastgaelam = <<0, 1>>
    /\ advantages = <<>>
    /\ returns = <<>>

(* Nothing flattened yet, no minibatch taken yet.                           *)
NoFlat == [b_obs |-> <<>>, b_logprobs |-> <<>>, b_actions |-> <<>>,
           b_advantages |-> <<>>, b_returns |-> <<>>, b_values |-> <<>>]
NoMinibatch == [mb_inds |-> <<>>, mb_obs |-> <<>>, mb_logprobs |-> <<>>,
                mb_actions |-> <<>>, mb_advantages |-> <<>>,
                mb_returns |-> <<>>, mb_values |-> <<>>]

BatchIdle ==
    /\ next_obs = <<>> /\ obs = <<>>
    /\ logprobs = <<>> /\ values = <<>>
    /\ advantages2d = <<>> /\ returns2d = <<>>
    /\ taken = <<>>
    /\ flat = NoFlat
    /\ b_inds = <<>>
    /\ mb = NoMinibatch
    /\ chunks = <<>>

MainIdle ==
    /\ BatchIdle
    /\ args = <<>>
    /\ pc = "idle"
    /\ update = 0 /\ step = 0 /\ global_step = 0 /\ epoch = 0 /\ start = 0
    /\ approx_kl_over = FALSE
    /\ grad_steps = 0
    /\ kl_hit = FALSE /\ kl_hit_end = FALSE
    /\ actions = <<>> /\ rewards = <<>> /\ episode = <<>>
    /\ info = <<>> /\ reported = <<>> /\ printed = <<>>

InitEnc ==
    /\ GaeIdle
    /\ MainIdle
    /\ enc_pc = "input"
    /\ \E E \in 1..MaxClasses : \E ids \in IdOrders(E) : \E sz \in Sizes(E) :
         \E ns \in SeqsOf(NodeUniverse(1..E), SumSeq(sz)) :
            egraph = MakeEGraph(ids, sz, ns)
    /\ data = NoData
    /\ decoded = <<>>

EncodeEGraph ==
    /\ enc_pc = "input"
    /\ data' = encode_egraph(egraph)
    /\ enc_pc' = "encoded"
    /\ UNCHANGED <<egraph, decoded>>
    /\ UNCHANGED <<gaeVars, ctlVars, rollVars, batchVars>>

VizEGraph ==
    /\ enc_pc = "encoded"
    /\ decoded' = [i \in 1..Len(data.x) |-> decode_node(data.x[i])]
    /\ enc_pc' = "decoded"
    /\ UNCHANGED <<egraph, data>>
    /\ UNCHANGED <<gaeVars, ctlVars, rollVars, batchVars>>

NextEnc == EncodeEGraph \/ VizEGraph

SpecEnc == InitEnc /\ [][NextEnc]_vars

-----------------------------------------------------------------------------
(* Properties of the encoder (SpecEnc).                                    *)
NumClasses == Len(egraph)
AllNodes == NodesInOrder(egraph)
NumNodes == Len(AllNodes)
(* The row of the j-th node (j = 1..NumNodes) in class order.              *)
NodeRow(j) == data.x[NumClasses + j]
OpSlotsZero(row) == \A k \in 5..Len(row) : row[k] = 0
Abs(v) == IF v < 0 THEN -v ELSE v
(* The position (0-based) of the class with this id in the class mapping.  *)
ClassPos(id) == (CHOOSE i \in 1..NumClasses : egraph[i].id = id) - 1
Count(s, P(_)) == Cardinality({k \in 1..Len(s) : P(s[k])})

(* C3, as stated: the row of a scalar leaf has is_enode = 1, is_scalar =   *)
(* 1, scalar_value equal to the integer, is_eclass = 0 and every operator  *)
(* slot 0.                                                                 *)
C3_ScalarRowHasEnodeFlag ==
    enc_pc # "input" =>
        \A j \in 1..NumNodes :
            IsInt(AllNodes[j].node) =>
                /\ NodeRow(j)[2] = 1
                /\ NodeRow(j)[3] = 1
                /\ NodeRow(j)[4] = AllNodes[j].node.value
                /\ NodeRow(j)[1] = 0
                /\ OpSlotsZero(NodeRow(j))

(* C3, amended: the row of a scalar leaf has is_enode = 0, is_scalar = 1,  *)
(* is_eclass = 0 and every operator slot 0; scalar_value equals the        *)
(* integer whenever its magnitude is at most 2^24 (the slot is a float32). *)
C3_ScalarRow ==
    enc_pc # "input" =>
        \A j \in 1..NumNodes :
            IsInt(AllNodes[j].node) =>
                LET v == AllNodes[j].node.value
                IN  /\ NodeRow(j)[2] = 0
                    /\ NodeRow(j)[3] = 1
                    /\ NodeRow(j)[1] = 0
                    /\ OpSlotsZero(NodeRow(j))
                    /\ Abs(v) <= 16777216 => NodeRow(j)[4] = v

C3_Witness ==
    /\ enc_pc = "encoded"
    /\ \E j \in 1..NumNodes :
          /\ IsInt(AllNodes[j].node)
          /\ AllNodes[j].node.value = 3
          /\ NodeRow(j) = <<0, 0, 1, 3, 0, 0>>

(* C8: E eclasses and N nodes give exactly E+N rows, each of width 4 + the *)
(* number of operator kinds; rows 0..E-1 are the eclass rows (is_eclass =  *)
(* 1, every other slot 0), in the order of the class mapping, and rows     *)
(* E..E+N-1 are the rows of the nodes, so eclasses come before all enodes. *)
C8_RowLayout ==
    enc_pc # "input" =>
        /\ Len(data.x) = NumClasses + NumNodes
        /\ \A i \in 1..Len(data.x) : Len(data.x[i]) = 4 + Len(all_operators)
        /\ \A i \in 1..NumClasses :
              /\ data.x[i][1] = 1
              /\ \A k \in 2..Len(data.x[i]) : data.x[i][k] = 0
        /\ \A j \in 1..NumNodes :
              /\ NodeRow(j)[1] = 0
              /\ IsInt(AllNodes[j].node) <=> NodeRow(j)[3] = 1
              /\ ~IsInt(AllNodes[j].node) =>
                    /\ NodeRow(j)[2] = 1
                    /\ NodeRow(j)[4 + AllNodes[j].node.op] = 1

C8_Witness ==
    /\ enc_pc = "encoded"
    /\ NumClasses = 2
    /\ NumNodes = 3
    /\ Len(data.x) = 5
    /\ \E j \in 1..NumNodes : ~IsInt(AllNodes[j].node)

(* C9: the edge list is exactly one membership edge (owning eclass ->      *)
(* enode) per enode, one argument edge (enode -> child eclass) per child   *)
(* of each operator enode, and one self-loop per node; membership edges    *)
(* are tagged <<0, 1>> and argument edges <<1, 0>>; every membership       *)
(* source and argument target is an eclass index; the edge count is        *)
(* N + (sum of the arities) + (E + N).                                     *)
Edge(k) == [src |-> data.edge_index[k][1], dst |-> data.edge_index[k][2],
            attr |-> data.edge_attr[k]]
Edges == [k \in 1..Len(data.edge_index) |-> Edge(k)]
Arity(node) == IF IsInt(node) THEN 0 ELSE Len(node.args)
MembershipExpected(s, d) ==
    Cardinality({j \in 1..NumNodes :
        ClassPos(AllNodes[j].eclass_id) = s /\ NumClasses + j - 1 = d})
ArgumentExpected(s, d) ==
    SumSeq([j \in 1..NumNodes |->
        IF NumClasses + j - 1 = s
        THEN Cardinality({k \in 1..Arity(AllNodes[j].node) :
                            ClassPos(AllNodes[j].node.args[k]) = d})
        ELSE 0])

C9_EdgeList ==
    enc_pc # "input" =>
        LET rows == 0..(NumClasses + NumNodes - 1)
            membership(e) == e.src # e.dst /\ e.attr = <<0, 1>>
            argument(e) == e.src # e.dst /\ e.attr = <<1, 0>>
        IN  /\ Len(data.edge_attr) = Len(data.edge_index)
            /\ Len(data.edge_index) =
                  NumNodes
                  + SumSeq([j \in 1..NumNodes |-> Arity(AllNodes[j].node)])
                  + (NumClasses + NumNodes)
            /\ \A k \in 1..Len(Edges) :
                  /\ Edges[k].src \in rows /\ Edges[k].dst \in rows
                  /\ Edges[k].src = Edges[k].dst
                        \/ membership(Edges[k]) \/ argument(Edges[k])
                  /\ membership(Edges[k]) => Edges[k].src < NumClasses
                  /\ argument(Edges[k]) => Edges[k].dst < NumClasses
            /\ \A s \in rows :
                  LET loop(e) == e.src = s /\ e.dst = s
                  IN  Count(Edges, loop) = 1
            /\ \A s \in rows : \A d \in rows \ {s} :
                  LET m(e) == e.src = s /\ e.dst = d /\ membership(e)
                      a(e) == e.src = s /\ e.dst = d /\ argument(e)
                  IN  /\ Count(Edges, m) = MembershipExpected(s, d)
                      /\ Count(Edges, a) = ArgumentExpected(s, d)

C9_Witness ==
    /\ enc_pc = "encoded"
    /\ NumClasses = 2
    /\ \E j \in 1..NumNodes :
          /\ Arity(AllNodes[j].node) = 2
          /\ AllNodes[j].node.args[1] # AllNodes[j].node.args[2]
    /\ \E j \in 1..NumNodes : IsInt(AllNodes[j].node)

(* C10, as stated: an eclass row decodes to type eclass, a scalar leaf to  *)
(* a scalar enode with the same value, an operator node of kind k to an    *)
(* enode whose op is the name of k.                                        *)
DecodedNode(j) == decoded[NumClasses + j]
EclassAndOpsDecode ==
    /\ \A i \in 1..NumClasses : decoded[i].type = "eclass"
    /\ \A j \in 1..NumNodes :
          /\ DecodedNode(j).type = "enode"
          /\ DecodedNode(j).is_scalar <=> IsInt(AllNodes[j].node)
          /\ ~IsInt(AllNodes[j].node) =>
                /\ "op" \in DOMAIN DecodedNode(j)
                /\ DecodedNode(j).op = all_operators[AllNodes[j].node.op].name

C10_RoundTripExact ==
    enc_pc = "decoded" =>
        /\ EclassAndOpsDecode
        /\ \A j \in 1..NumNodes :
              IsInt(AllNodes[j].node) =>
                  DecodedNode(j).value = AllNodes[j].node.value

(* C10, amended: as stated, with the scalar leaf's value recovered         *)
(* whenever its magnitude is at most 2^24 (the row is a float32 tensor).   *)
C10_RoundTrip ==
    enc_pc = "decoded" =>
        /\ EclassAndOpsDecode
        /\ \A j \in 1..NumNodes :
              IsInt(AllNodes[j].node) =>
                  LET v == AllNodes[j].node.value
                  IN  Abs(v) <= 16777216 => DecodedNode(j).value = v

C10_Witness ==
    /\ enc_pc = "decoded"
    /\ \E j \in 1..NumNodes :
          ~IsInt(AllNodes[j].node) /\ DecodedNode(j).op = "Neg"
    /\ \E j \in 1..NumNodes :
          IsInt(AllNodes[j].node) /\ DecodedNode(j).value = 3
    /\ \E j \in 1..NumNodes :
          ~IsInt(AllNodes[j].node) /\ DecodedNode(j).op = "Add"

-----------------------------------------------------------------------------
(* Exact arithmetic for the advantage computation: a number is <<n, d>>,   *)
(* n/d in lowest terms with d > 0.                                         *)
RECURSIVE Gcd(_, _)
Gcd(a, b) == IF b = 0 THEN a ELSE Gcd(b, a % b)

Rat(n, d) ==
    LET g == Gcd(IF n < 0 THEN -n ELSE n, d)
    IN  IF n = 0 THEN <<0, 1>> ELSE <<n \div g, d \div g>>

Int2Rat(n) == <<n, 1>>
RAdd(a, b) == Rat(a[1] * b[2] + b[1] * a[2], a[2] * b[2])
RSub(a, b) == Rat(a[1] * b[2] - b[1] * a[2], a[2] * b[2])
RMul(a, b) == Rat(a[1] * b[1], a[2] * b[2])
Zero == <<0, 1>>
One == <<1, 1>>
Half == <<1, 2>>

-----------------------------------------------------------------------------
(* The advantage computation of main (src/ppo.py, "bootstrap value if not  *)
(* done"), for one environment: every tensor operation of it is            *)
(* elementwise over the environments.  Index t of a tensor is element t+1. *)
num_steps_gae == Len(rollout.rewards)

(* nextnonterminal at step tt, dones_at(tt) the column to read it from.    *)
nextnonterminal_from(ro, tt, done_index) ==
    IF tt = Len(ro.rewards) - 1
    THEN RSub(One, ro.next_done)
    ELSE RSub(One, ro.dones[done_index + 1])

(* nextnonterminal reading dones[t] in place of dones[t + 1].              *)
nextnonterminal_same_step(ro, tt) == nextnonterminal_from(ro, tt, tt)

nextnonterminal(ro, tt) == nextnonterminal_from(ro, tt, tt + 1)

nextvalues(ro, tt) ==
    IF tt = Len(ro.rewards) - 1 THEN ro.next_value ELSE ro.values[tt + 2]

(* delta = rewards[t] + gamma * nextvalues * nextnonterminal - values[t]   *)
delta(a, ro, tt) ==
    RSub(RAdd(ro.rewards[tt + 1],
              RMul(RMul(a.gamma, nextvalues(ro, tt)), nextnonterminal(ro, tt))),
         ro.values[tt + 1])

(* The GAE step with gamma left out of the carried term.                   *)
gae_step_no_discount(a, ro, tt, last) ==
    RAdd(delta(a, ro, tt),
         RMul(RMul(a.gae_lambda, nextnonterminal(ro, tt)), last))

(* delta + gamma * gae_lambda * nextnonterminal * lastgaelam               *)
gae_step(a, ro, tt, last) ==
    RAdd(delta(a, ro, tt),
         RMul(RMul(RMul(a.gamma, a.gae_lambda), nextnonterminal(ro, tt)), last))

(* returns[t] = rewards[t] + gamma * nextnonterminal * next_return         *)
return_step(a, ro, tt, next_return) ==
    RAdd(ro.rewards[tt + 1],
         RMul(RMul(a.gamma, nextnonterminal(ro, tt)), next_return))

(* The else branch as a whole: returns[t] for t = T-1 down to 0.           *)
RECURSIVE discounted_returns(_, _, _)
discounted_returns(a, ro, tt) ==
    IF tt = Len(ro.rewards) THEN <<>>
    ELSE LET later == discounted_returns(a, ro, tt + 1)
             next_return == IF tt = Len(ro.rewards) - 1
                            THEN ro.next_value ELSE Head(later)
         IN  <<return_step(a, ro, tt, next_return)>> \o later

Bit == {Zero, One}
Gammas == {Half, One}
Lambdas == {Zero, Half, One}

InitGae ==
    /\ EncIdle
    /\ MainIdle
    /\ gae_pc = "start"
    /\ args_gae \in [gae : BOOLEAN, gamma : Gammas, gae_lambda : Lambdas]
    /\ rollout \in [rewards : [1..GaeSteps -> Bit], values : [1..GaeSteps -> Bit],
                    dones : [1..GaeSteps -> Bit], next_value : Bit, next_done : Bit]
    /\ t = 0
    /\ lastgaelam = Zero
    /\ advantages = <<>>
    /\ returns = <<>>

(* advantages = zeros_like(rewards); lastgaelam = 0  (or returns = ...).   *)
StartAdvantages ==
    /\ gae_pc = "start"
    /\ gae_pc' = "loop"
    /\ t' = num_steps_gae - 1
    /\ IF args_gae.gae
       THEN /\ advantages' = [i \in 1..num_steps_gae |-> Zero]
            /\ lastgaelam' = Zero
            /\ UNCHANGED returns
       ELSE /\ returns' = [i \in 1..num_steps_gae |-> Zero]
            /\ UNCHANGED <<advantages, lastgaelam>>
    /\ UNCHANGED <<args_gae, rollout>>
    /\ UNCHANGED <<encVars, ctlVars, rollVars, batchVars>>

(* One iteration of "for t in reversed(range(args.num_steps))", GAE branch *)
GaeStep ==
    /\ gae_pc = "loop" /\ args_gae.gae /\ t >= 0
    /\ LET adv == gae_step(args_gae, rollout, t, lastgaelam)
       IN  /\ advantages' = [advantages EXCEPT ![t + 1] = adv]
           /\ lastgaelam' = adv
    /\ t' = t - 1
    /\ UNCHANGED <<gae_pc, args_gae, rollout, returns>>
    /\ UNCHANGED <<encVars, ctlVars, rollVars, batchVars>>

(* returns = advantages + values                                           *)
GaeReturns ==
    /\ gae_pc = "loop" /\ args_gae.gae /\ t < 0
    /\ returns' = [i \in 1..num_steps_gae |-> RAdd(advantages[i], rollout.values[i])]
    /\ gae_pc' = "done"
    /\ UNCHANGED <<args_gae, rollout, t, lastgaelam, advantages>>
    /\ UNCHANGED <<encVars, ctlVars, rollVars, batchVars>>

(* One iteration of the loop of the else branch.                           *)
ReturnStep ==
    /\ gae_pc = "loop" /\ ~args_gae.gae /\ t >= 0
    /\ LET next_return == IF t = num_steps_gae - 1
                          THEN rollout.next_value ELSE returns[t + 2]
       IN  returns' = [returns EXCEPT ![t + 1] =
                          return_step(args_gae, rollout, t, next_return)]
    /\ t' = t - 1
    /\ UNCHANGED <<gae_pc, args_gae, rollout, lastgaelam, advantages>>
    /\ UNCHANGED <<encVars, ctlVars, rollVars, batchVars>>

(* advantages = returns - values                                           *)
ReturnAdvantages ==
    /\ gae_pc = "loop" /\ ~args_gae.gae /\ t < 0
    /\ advantages' = [i \in 1..num_steps_gae |-> RSub(returns[i], rollout.values[i])]
    /\ gae_pc' = "done"
    /\ UNCHANGED <<args_gae, rollout, t, lastgaelam, returns>>
    /\ UNCHANGED <<encVars, ctlVars, rollVars, batchVars>>

NextGae ==
    \/ StartAdvantages
    \/ GaeStep
    \/ GaeReturns
    \/ ReturnStep
    \/ ReturnAdvantages

SpecGae == InitGae /\ [][NextGae]_vars

-----------------------------------------------------------------------------
(* Properties of the advantage computation (SpecGae).                      *)
LastStep == GaeSteps - 1
(* The claim's quantities, read off the inputs: step tt is 0..T-1.         *)
Claim_nonterminal(tt) ==
    IF tt = LastStep THEN RSub(One, rollout.next_done)
    ELSE RSub(One, rollout.dones[tt + 2])
Claim_next_v(tt) ==
    IF tt = LastStep THEN rollout.next_value ELSE rollout.values[tt + 2]
Claim_delta(tt) ==
    RSub(RAdd(rollout.rewards[tt + 1],
              RMul(args_gae.gamma, RMul(Claim_next_v(tt), Claim_nonterminal(tt)))),
         rollout.values[tt + 1])
Claim_advantage(tt) == IF tt = GaeSteps THEN Zero ELSE advantages[tt + 1]

(* C6: with use_gae on, advantage_t = delta_t + gamma * lambda *           *)
(* nonterminal_t * advantage_{t+1} with advantage_T = 0 and delta_t =      *)
(* reward_t + gamma * next_v_t * nonterminal_t - value_t; return_t =       *)
(* advantage_t + value_t; and where done_{t+1} = 1, advantage_t =          *)
(* reward_t - value_t whatever the later steps hold.                       *)
C6_GaeRecursion ==
    (gae_pc = "done" /\ args_gae.gae) =>
        \A tt \in 0..LastStep :
            /\ advantages[tt + 1] =
                  RAdd(Claim_delta(tt),
                       RMul(args_gae.gamma,
                            RMul(args_gae.gae_lambda,
                                 RMul(Claim_nonterminal(tt), Claim_advantage(tt + 1)))))
            /\ returns[tt + 1] = RAdd(advantages[tt + 1], rollout.values[tt + 1])
            /\ Claim_nonterminal(tt) = Zero =>
                  advantages[tt + 1] = RSub(rollout.rewards[tt + 1], rollout.values[tt + 1])

C6_Witness ==
    /\ gae_pc = "done" /\ args_gae.gae
    /\ args_gae.gamma = Half /\ args_gae.gae_lambda = Half
    /\ rollout.dones[2] = One /\ advantages[2] # Zero
    /\ rollout.dones[3] = Zero /\ advantages[3] # Zero
    /\ advantages[2] # Claim_delta(1)

(* C7: with lambda = 1 the GAE branch yields the returns and advantages of *)
(* the discounted-return branch (return_t = reward_t + gamma *             *)
(* nonterminal_t * return_{t+1}, bootstrapped from next_value; advantage = *)
(* return - value); with lambda = 0 it yields advantage_t = delta_t.       *)
C7_GaeLimits ==
    (gae_pc = "done" /\ args_gae.gae) =>
        /\ args_gae.gae_lambda = One =>
              LET plain == discounted_returns(args_gae, rollout, 0)
              IN  /\ returns = plain
                  /\ \A i \in 1..GaeSteps :
                        advantages[i] = RSub(plain[i], rollout.values[i])
        /\ args_gae.gae_lambda = Zero =>
              \A tt \in 0..LastStep : advantages[tt + 1] = Claim_delta(tt)

C7_Witness ==
    /\ gae_pc = "done" /\ args_gae.gae
    /\ args_gae.gae_lambda = One /\ args_gae.gamma = Half
    /\ rollout.next_done = Zero /\ rollout.next_value = One
    /\ \A i \in 2..GaeSteps : rollout.dones[i] = Zero
    /\ returns[1] # RAdd(rollout.rewards[1], rollout.values[1])
    /\ returns = discounted_returns(args_gae, rollout, 0)

-----------------------------------------------------------------------------
(* main (src/ppo.py): the sizes parse_args and main derive.                *)
batch_size == args.num_envs * args.num_steps
minibatch_size == batch_size \div args.num_minibatches
(* A number of rollouts that rounds the quotient up.                        *)
num_updates_rounded_up == (args.total_timesteps + batch_size - 1) \div batch_size
(* num_updates = args.total_timesteps // args.batch_size                   *)
num_updates == args.total_timesteps \div batch_size
EnvInds == 0..(args.num_envs - 1)

(* gym.wrappers.TimeLimit(env, max_episode_steps=100), scaled to one step  *)
(* more than the longest buffer, so that episodes longer than the buffer   *)
(* occur.                                                                  *)
max_episode_steps == MaxSteps + 1

(* action_names: the rule names, then "end".                               *)
action_names == <<"rule0", "end">>
ActionIds == 0..(Len(action_names) - 1)
(* What one environment step can be: the action taken, the reward it      *)
(* earned, whether the environment answered done, and with done the        *)
(* episode's "actual_cost".                                                *)
StepOutcomes == {<<0, 0, FALSE, 0>>, <<1, 1, FALSE, 0>>,
                 <<0, 0, TRUE, 1>>, <<1, 1, TRUE, 2>>}

-----------------------------------------------------------------------------
(* Python's s[lo:hi] on a list of length n; hi = n stands for an open end. *)
PyIndex(i, n) == IF i < 0 THEN Max(i + n, 0) ELSE Min(i, n)

PySlice(s, lo, hi) ==
    LET a == PyIndex(lo, Len(s))
        b == PyIndex(hi, Len(s))
    IN  IF a >= b THEN <<>> ELSE SubSeq(s, a + 1, b)

(* buf[lo:hi][:, env_ind]                                                  *)
Column(buf, lo, hi, env_ind) ==
    LET rows == PySlice(buf, lo, hi)
    IN  [k \in 1..Len(rows) |-> rows[k][env_ind]]

(* The slice of a finished episode with the wrapped branch never taken.    *)
episode_slice_unwrapped(buf, stp, l, env_ind) ==
    Column(buf, (stp + 1) - l, stp + 1, env_ind)

(* The rows of the finished episode of length l that ended at step stp:    *)
(* start = (step+1) - l, and when start < 0 the tail of the buffer from    *)
(* num_steps + start, then rows 0..step.                                   *)
episode_slice(buf, stp, l, env_ind) ==
    LET start_ == (stp + 1) - l
        start_before == args.num_steps + start_
    IN  IF start_ < 0
        THEN Column(buf, start_before, Len(buf), env_ind)
             \o Column(buf, 0, stp + 1, env_ind)
        ELSE Column(buf, start_, stp + 1, env_ind)

(* ep_a_r = list(zip(ep_actions, ep_rewards))                              *)
ep_a_r(acts, rews, stp, l, env_ind) ==
    LET picked == episode_slice(acts, stp, l, env_ind)
        ep_actions == [k \in 1..Len(picked) |-> action_names[picked[k] + 1]]
        ep_rewards == episode_slice(rews, stp, l, env_ind)
    IN  [k \in 1..Min(Len(ep_actions), Len(ep_rewards)) |->
            <<ep_actions[k], ep_rewards[k]>>]

(* The environments the loop over info handles, with no break.             *)
handled_envs_no_break(inf) ==
    LET done == {e \in DOMAIN inf : inf[e].has_episode}
        F[n \in 0..Cardinality(DOMAIN inf)] ==
            IF n = 0 THEN <<>>
            ELSE IF (n - 1) \in done THEN Append(F[n - 1], n - 1) ELSE F[n - 1]
    IN  F[Cardinality(DOMAIN inf)]

(* "for env_ind, item in enumerate(info): if "episode" in item.keys(): ... *)
(* break": the first environment with episode statistics, and no other.    *)
handled_envs(inf) ==
    LET done == {e \in DOMAIN inf : inf[e].has_episode}
    IN  IF done = {} THEN <<>>
        ELSE << CHOOSE e \in done : \A f \in done : e <= f >>

-----------------------------------------------------------------------------
(* The control flow of main.                                               *)

(* An environment just reset.                                              *)
NoEpisode == [r |-> 0, l |-> 0, steps |-> <<>>]

(* From parse_args to the rollout loop: the writer, the seeding, the       *)
(* environments, the agent and the storage.                                *)
SetupCtl ==
    /\ pc = "parsed"
    /\ pc' = "loop"
    /\ global_step' = 0
    /\ UNCHANGED <<args, update, step, epoch, start,
                   approx_kl_over, grad_steps, kl_hit, kl_hit_end>>

SetupData ==
    /\ actions' = [s \in 1..args.num_steps |-> [e \in EnvInds |-> 0]]
    /\ rewards' = [s \in 1..args.num_steps |-> [e \in EnvInds |-> 0]]
    /\ episode' = [e \in EnvInds |-> NoEpisode]
    /\ UNCHANGED <<info, reported, printed>>

(* for update in range(1, num_updates + 1)                                 *)
NextUpdate ==
    /\ pc = "loop" /\ update < num_updates
    /\ update' = update + 1
    /\ step' = 0
    /\ pc' = "rollout"
    /\ UNCHANGED <<args, global_step, epoch, start,
                   approx_kl_over, grad_steps, kl_hit, kl_hit_end>>

(* envs.close(); writer.close()                                            *)
Close ==
    /\ pc = "loop" /\ update >= num_updates
    /\ pc' = "closed"
    /\ UNCHANGED <<args, update, step, global_step, epoch, start,
                   approx_kl_over, grad_steps, kl_hit, kl_hit_end>>

(* One iteration of "for step in range(0, args.num_steps)": the counters.  *)
StepCtl ==
    /\ pc = "rollout" /\ step < args.num_steps
    /\ global_step' = global_step + 1 * args.num_envs
    /\ step' = step + 1
    /\ pc' = IF step + 1 < args.num_steps THEN "rollout" ELSE "learn"
    /\ UNCHANGED <<args, update, epoch, start,
                   approx_kl_over, grad_steps, kl_hit, kl_hit_end>>

(* The last n elements of a sequence.                                      *)
LastN(sq, n) == IF Len(sq) <= n THEN sq ELSE SubSeq(sq, Len(sq) - n + 1, Len(sq))

(* The same iteration: the buffers, the environments and the reporting.    *)
(* done[e] is what the environment answers; TimeLimit forces it at         *)
(* max_episode_steps.  SyncVectorEnv resets a finished environment.        *)
StepData ==
    \E outcome \in [EnvInds -> StepOutcomes] :
        LET action == [e \in EnvInds |-> outcome[e][1]]
            reward == [e \in EnvInds |-> outcome[e][2]]
            done == [e \in EnvInds |-> outcome[e][3]]
            cost == [e \in EnvInds |-> outcome[e][4]]
            running == [e \in EnvInds |->
                [r |-> episode[e].r + reward[e],
                 l |-> episode[e].l + 1,
                 steps |-> LastN(Append(episode[e].steps, <<action[e], reward[e]>>),
                                 args.num_steps)]]
            new_info == [e \in EnvInds |->
                IF done[e]
                THEN [has_episode |-> TRUE, episode |-> running[e],
                      actual_cost |-> cost[e]]
                ELSE [has_episode |-> FALSE, episode |-> NoEpisode,
                      actual_cost |-> 0]]
            new_actions == [actions EXCEPT ![step + 1] = action]
            new_rewards == [rewards EXCEPT ![step + 1] = reward]
            handled == handled_envs(new_info)
        IN  /\ \A e \in EnvInds : episode[e].l + 1 >= max_episode_steps => done[e]
            /\ actions' = new_actions
            /\ rewards' = new_rewards
            /\ info' = new_info
            /\ episode' = [e \in EnvInds |-> IF done[e] THEN NoEpisode ELSE running[e]]
            /\ reported' = [k \in 1..Len(handled) |->
                   [env_ind |-> handled[k],
                    episodic_return |-> new_info[handled[k]].episode.r,
                    episodic_length |-> new_info[handled[k]].episode.l,
                    episodic_cost |-> new_info[handled[k]].actual_cost,
                    global_step |-> global_step + 1 * args.num_envs]]
            /\ printed' =
                   IF args.print_actions
                   THEN [k \in 1..Len(handled) |->
                           [env_ind |-> handled[k],
                            ep_a_r |-> ep_a_r(new_actions, new_rewards, step,
                                              new_info[handled[k]].episode.l,
                                              handled[k])]]
                   ELSE <<>>

(* "bootstrap value if not done" to "b_inds = np.arange(args.batch_size);  *)
(* clipfracs = []".                                                        *)
BeginLearn ==
    /\ pc = "learn"
    /\ pc' = "epoch"
    /\ epoch' = 0
    /\ kl_hit' = FALSE
    /\ kl_hit_end' = FALSE
    /\ UNCHANGED <<args, update, step, global_step, start, approx_kl_over, grad_steps>>
    /\ UNCHANGED rollVars

(* for epoch in range(args.update_epochs): np.random.shuffle(b_inds);      *)
(* for start in range(0, args.batch_size, args.minibatch_size).            *)
(* range() raises ValueError for a step of 0.                              *)
EpochStart ==
    /\ pc = "epoch" /\ epoch < args.update_epochs
    /\ start' = 0
    /\ pc' = IF minibatch_size = 0 THEN "crashed" ELSE "minibatch"
    /\ UNCHANGED <<args, update, step, global_step, epoch,
                   approx_kl_over, grad_steps, kl_hit, kl_hit_end>>
    /\ UNCHANGED rollVars

EpochsDone ==
    /\ pc = "epoch" /\ epoch >= args.update_epochs
    /\ pc' = "log"
    /\ UNCHANGED <<args, update, step, global_step, epoch, start,
                   approx_kl_over, grad_steps, kl_hit, kl_hit_end>>
    /\ UNCHANGED rollVars

(* One minibatch: approx_kl is computed, then the gradient step is taken.  *)
Minibatch ==
    /\ pc = "minibatch" /\ start < batch_size
    /\ \E over \in BOOLEAN :
          /\ approx_kl_over' = over
          /\ kl_hit' = (kl_hit \/ over)
    /\ grad_steps' = grad_steps + 1
    /\ start' = start + minibatch_size
    /\ UNCHANGED <<args, pc, update, step, global_step, epoch, kl_hit_end>>
    /\ UNCHANGED rollVars

MinibatchesDone ==
    /\ pc = "minibatch" /\ start >= batch_size
    /\ pc' = "klcheck"
    /\ kl_hit_end' = (kl_hit_end \/ approx_kl_over)
    /\ UNCHANGED <<args, update, step, global_step, epoch, start,
                   approx_kl_over, grad_steps, kl_hit>>
    /\ UNCHANGED rollVars

(* A check that never stops early.                                         *)
kl_break_never == FALSE

(* if args.target_kl is not None: if approx_kl > args.target_kl: break     *)
kl_break == args.target_kl /\ approx_kl_over

KlCheck ==
    /\ pc = "klcheck"
    /\ IF kl_break
       THEN pc' = "log" /\ UNCHANGED epoch
       ELSE pc' = "epoch" /\ epoch' = epoch + 1
    /\ UNCHANGED <<args, update, step, global_step, start,
                   approx_kl_over, grad_steps, kl_hit, kl_hit_end>>
    /\ UNCHANGED rollVars

(* explained variance and the writer's scalars of the update.              *)
Log ==
    /\ pc = "log"
    /\ pc' = "loop"
    /\ UNCHANGED <<args, update, step, global_step, epoch, start,
                   approx_kl_over, grad_steps, kl_hit, kl_hit_end>>
    /\ UNCHANGED rollVars

-----------------------------------------------------------------------------
(* Spec: the control flow of main, the buffers' contents left out.         *)
InitArgs(a) ==
    /\ EncIdle
    /\ GaeIdle
    /\ args = a
    /\ pc = "parsed"
    /\ update = 0 /\ step = 0 /\ global_step = 0 /\ epoch = 0 /\ start = 0
    /\ approx_kl_over = FALSE
    /\ grad_steps = 0
    /\ kl_hit = FALSE /\ kl_hit_end = FALSE
    /\ actions = <<>> /\ rewards = <<>> /\ episode = <<>>
    /\ info = <<>> /\ reported = <<>> /\ printed = <<>>
    /\ BatchIdle

Init ==
    \E a \in [num_envs : 1..MaxEnvs, num_steps : 1..MaxSteps,
              num_minibatches : 1..MaxMinibatches, update_epochs : 1..MaxEpochs,
              total_timesteps : 0..MaxTimesteps, target_kl : BOOLEAN,
              print_actions : {FALSE}] :
        InitArgs(a)

Setup == SetupCtl /\ UNCHANGED rollVars
StartRollout == NextUpdate /\ UNCHANGED rollVars
Finish == Close /\ UNCHANGED rollVars
CollectStep == StepCtl /\ UNCHANGED rollVars

Next ==
    \/ (Setup /\ UNCHANGED <<encVars, gaeVars, batchVars>>)
    \/ (StartRollout /\ UNCHANGED <<encVars, gaeVars, batchVars>>)
    \/ (Finish /\ UNCHANGED <<encVars, gaeVars, batchVars>>)
    \/ (CollectStep /\ UNCHANGED <<encVars, gaeVars, batchVars>>)
    \/ (BeginLearn /\ UNCHANGED <<encVars, gaeVars, batchVars>>)
    \/ (EpochStart /\ UNCHANGED <<encVars, gaeVars, batchVars>>)
    \/ (EpochsDone /\ UNCHANGED <<encVars, gaeVars, batchVars>>)
    \/ (Minibatch /\ UNCHANGED <<encVars, gaeVars, batchVars>>)
    \/ (MinibatchesDone /\ UNCHANGED <<encVars, gaeVars, batchVars>>)
    \/ (KlCheck /\ UNCHANGED <<encVars, gaeVars, batchVars>>)
    \/ (Log /\ UNCHANGED <<encVars, gaeVars, batchVars>>)

Spec == Init /\ [][Next]_vars

(* SpecRollout: the rollouts with their buffers; the update between two    *)
(* rollouts, which leaves the buffers and the environments alone, is one   *)
(* step.                                                                   *)
InitRollout ==
    \E E \in 1..MaxEnvs, T \in 1..MaxSteps, p \in BOOLEAN :
        /\ E * T <= MaxCells
        /\ InitArgs([num_envs |-> E, num_steps |-> T, num_minibatches |-> 1,
                  update_epochs |-> 1, total_timesteps |-> RolloutsRun * E * T,
                  target_kl |-> FALSE, print_actions |-> p])

SetupBuffers == SetupCtl /\ SetupData
RolloutStep == StepCtl /\ StepData

Learn ==
    /\ pc = "learn"
    /\ pc' = "loop"
    /\ UNCHANGED <<args, update, step, global_step, epoch, start,
                   approx_kl_over, grad_steps, kl_hit, kl_hit_end>>
    /\ UNCHANGED rollVars

NextRollout ==
    \/ (SetupBuffers /\ UNCHANGED <<encVars, gaeVars, batchVars>>)
    \/ (StartRollout /\ UNCHANGED <<encVars, gaeVars, batchVars>>)
    \/ (Finish /\ UNCHANGED <<encVars, gaeVars, batchVars>>)
    \/ (RolloutStep /\ UNCHANGED <<encVars, gaeVars, batchVars>>)
    \/ (Learn /\ UNCHANGED <<encVars, gaeVars, batchVars>>)

SpecRollout == InitRollout /\ [][NextRollout]_vars

-----------------------------------------------------------------------------
(* Properties of the rollout (SpecRollout).                                *)
Completed == {e \in DOMAIN info : info[e].has_episode}
Reported(e) ==
    \E k \in 1..Len(reported) :
        /\ reported[k].env_ind = e
        /\ reported[k].episodic_return = info[e].episode.r
        /\ reported[k].episodic_length = info[e].episode.l
        /\ reported[k].episodic_cost = info[e].actual_cost
        /\ reported[k].global_step = global_step
Printed(e) == \E k \in 1..Len(printed) : printed[k].env_ind = e
FirstCompleted == CHOOSE e \in Completed : \A f \in Completed : e <= f

EpisodeSteps(e) ==
    [k \in 1..Len(info[e].episode.steps) |->
        <<action_names[info[e].episode.steps[k][1] + 1], info[e].episode.steps[k][2]>>]

C5_SliceIsEpisode ==
    \A k \in 1..Len(printed) :
        LET e == printed[k].env_ind
            L == info[e].episode.l
        IN  (1 <= L /\ L <= args.num_steps) =>
                /\ Len(printed[k].ep_a_r) = L
                /\ printed[k].ep_a_r = EpisodeSteps(e)

(* An episode that wrapped: it ended at row 0 of the second rollout with   *)
(* length num_steps = 2, in the second environment.                        *)
C5_Witness ==
    /\ Len(printed) = 1
    /\ printed[1].env_ind = 1
    /\ args.num_steps = 2 /\ update = 2 /\ step = 1
    /\ info[1].episode.l = 2
    /\ printed[1].ep_a_r = << <<"end", 1>>, <<"rule0", 0>> >>

-----------------------------------------------------------------------------
(* Properties of the update loop (Spec).                                   *)

(* C1, as stated: with a target KL configured, once the approximate KL of  *)
(* any minibatch of a rollout's update has exceeded the threshold, no      *)
(* later minibatch and no later epoch of that update takes a gradient      *)
(* step.                                                                   *)
C1_StopsAfterAnyMinibatch ==
    [][(args.target_kl /\ kl_hit) => grad_steps' = grad_steps]_vars

(* C1, amended: the threshold is compared once per epoch, after the        *)
(* epoch's last minibatch and with that minibatch's approximate KL.  Once  *)
(* that comparison has found the KL over the threshold, no later epoch of  *)
(* the update takes a gradient step and the steps taken are kept; and the  *)
(* epochs of an update end early for no other reason: the update reaches   *)
(* its logging either after update_epochs epochs or after such a           *)
(* comparison.                                                             *)
C1_StopsAfterEpochEnd ==
    [][/\ (args.target_kl /\ kl_hit_end) => grad_steps' = grad_steps
       /\ grad_steps' >= grad_steps
       /\ (pc # "log" /\ pc' = "log") =>
              \/ epoch' = args.update_epochs
              \/ args.target_kl /\ kl_hit_end']_vars

(* An update stopped by the comparison after its first epoch, with epochs  *)
(* left to run and more than one minibatch in the epoch.                   *)
C1_Witness ==
    /\ args.target_kl /\ kl_hit_end
    /\ pc = "log"
    /\ epoch = 0 /\ args.update_epochs > 1
    /\ grad_steps > 1

(* C2, as stated: with batch_size not a multiple of num_minibatches, the   *)
(* program stops before any environment step, rollout or gradient step.    *)
C2_RejectedAtStartup ==
    (batch_size % args.num_minibatches # 0) =>
        /\ update = 0 /\ step = 0 /\ global_step = 0
        /\ grad_steps = 0

(* A run with batch_size 4 and num_minibatches 3 (minibatch_size 1, four   *)
(* minibatches an epoch) that took its rollouts and gradient steps to the  *)
(* end.                                                                    *)
C2_Witness ==
    /\ batch_size = 4 /\ args.num_minibatches = 3
    /\ pc = "closed"
    /\ global_step > 0 /\ grad_steps > 0

-----------------------------------------------------------------------------
(* The storage of a rollout and its flattening (src/ppo.py, "flatten the   *)
(* batch").  An observation is a geom.data.Data: x, edge_index, edge_attr. *)

RECURSIVE ConcatAll(_)
ConcatAll(ss) == IF ss = <<>> THEN <<>> ELSE Head(ss) \o ConcatAll(Tail(ss))

(* The cumulative sizes 0, n1, n1 + n2, ... of a list of sequences.        *)
RECURSIVE Cumul(_, _)
Cumul(ss, from) ==
    IF ss = <<>> THEN <<from>>
    ELSE <<from>> \o Cumul(Tail(ss), from + Len(Head(ss)))

ShiftEdges(edges, by) == [k \in 1..Len(edges) |-> <<edges[k][1] + by, edges[k][2] + by>>]

(* pyg.data.Batch.from_data_list: x and edge_attr are concatenated;        *)
(* edge_index is concatenated with every graph's node indices moved up by  *)
(* the number of nodes before it; the slices remember where each graph is. *)
from_data_list(data_list) ==
    LET xs == [i \in 1..Len(data_list) |-> data_list[i].x]
        es == [i \in 1..Len(data_list) |-> data_list[i].edge_index]
        x_slices == Cumul(xs, 0)
        e_slices == Cumul(es, 0)
    IN  [x |-> ConcatAll(xs),
         edge_index |-> ConcatAll([i \in 1..Len(data_list) |->
                                      ShiftEdges(es[i], x_slices[i])]),
         edge_attr |-> ConcatAll([i \in 1..Len(data_list) |-> data_list[i].edge_attr]),
         x_slices |-> x_slices,
         e_slices |-> e_slices]

num_graphs(batch) == Len(batch.x_slices) - 1

(* An unbatching that leaves the node indices of the batch in the edges.   *)
get_example_shifted(batch, idx) ==
    [x |-> SubSeq(batch.x, batch.x_slices[idx + 1] + 1, batch.x_slices[idx + 2]),
     edge_index |-> SubSeq(batch.edge_index,
                           batch.e_slices[idx + 1] + 1, batch.e_slices[idx + 2]),
     edge_attr |-> SubSeq(batch.edge_attr,
                          batch.e_slices[idx + 1] + 1, batch.e_slices[idx + 2])]

(* Batch.get_example(idx): graph idx cut out of the batch, its node        *)
(* indices moved back down.                                                *)
get_example(batch, idx) ==
    [x |-> SubSeq(batch.x, batch.x_slices[idx + 1] + 1, batch.x_slices[idx + 2]),
     edge_index |-> ShiftEdges(SubSeq(batch.edge_index,
                                      batch.e_slices[idx + 1] + 1,
                                      batch.e_slices[idx + 2]),
                               0 - batch.x_slices[idx + 1]),
     edge_attr |-> SubSeq(batch.edge_attr,
                          batch.e_slices[idx + 1] + 1, batch.e_slices[idx + 2])]

to_data_list(batch) == [i \in 1..num_graphs(batch) |-> get_example(batch, i - 1)]

(* b_obs[mb_inds]: Batch.index_select, the examples in the order of inds.  *)
index_select(batch, inds) == [k \in 1..Len(inds) |-> get_example(batch, inds[k])]

(* tensor[inds] for a flat tensor.                                         *)
take(flat_tensor, inds) == [k \in 1..Len(inds) |-> flat_tensor[inds[k] + 1]]

(* A flattening that runs down the columns (environment-major).            *)
reshape_env_major(tensor) ==
    LET T == Len(tensor)
        E == Cardinality(DOMAIN tensor[1])
    IN  [i \in 1..(T * E) |-> tensor[((i - 1) % T) + 1][(i - 1) \div T]]

(* tensor.reshape(-1) of a (num_steps, num_envs) tensor: row-major, the    *)
(* element at flat index i is tensor[i // num_envs][i % num_envs].         *)
reshape(tensor) ==
    LET T == Len(tensor)
        E == Cardinality(DOMAIN tensor[1])
    IN  [i \in 1..(T * E) |-> tensor[((i - 1) \div E) + 1][(i - 1) % E]]

(* all_obs_raw: "for step_batch in obs: all_obs_raw +=                     *)
(* step_batch.to_data_list()".                                             *)
all_obs_raw(obs_array) ==
    ConcatAll([k \in 1..Len(obs_array) |-> to_data_list(obs_array[k])])

-----------------------------------------------------------------------------
(* SpecBatch: one rollout with its storage, then the update on it.         *)

(* The observations an environment can give: the encoding of the e-graph   *)
(* {c1 = {3}} and of the e-graph {c2 = {Neg(c1)}, c1 = {3}}, of two and    *)
(* of four rows.                                                           *)
Observations ==
    << encode_egraph(<<[id |-> 1, nodes |-> <<[tag |-> "int", value |-> 3]>>]>>),
       encode_egraph(<<[id |-> 2, nodes |-> <<[tag |-> "op", op |-> 2, args |-> <<1>>]>>],
                       [id |-> 1, nodes |-> <<[tag |-> "int", value |-> 3]>>]>>) >>

(* What one environment's step can be: the agent's action, its log-        *)
(* probability and the value estimate (integers standing for the floats),  *)
(* then the environment's reward and next observation.                     *)
BatchOutcomes ==
    {[action |-> 0, logprob |-> -1, value |-> 0, reward |-> 0, next |-> 1],
     [action |-> 1, logprob |-> -2, value |-> 1, reward |-> 2, next |-> 2]}

(* np.empty(num_steps, dtype=object): an entry not yet assigned.           *)
NoBatch == from_data_list(<<>>)

(* List of the environments' graphs, in the order of the environments.     *)
EnvList(f) == [k \in 1..args.num_envs |-> f[k - 1]]

(* The storage set up, and envs.reset() batched into next_obs: make_env    *)
(* gives every environment the same expression to start from.              *)
SetupObs ==
    LET seen == [e \in EnvInds |-> Observations[1]]
    IN  /\ next_obs' = from_data_list(EnvList(seen))
        /\ obs' = [s \in 1..args.num_steps |-> NoBatch]
        /\ logprobs' = [s \in 1..args.num_steps |-> [e \in EnvInds |-> 0]]
        /\ values' = [s \in 1..args.num_steps |-> [e \in EnvInds |-> 0]]
        /\ taken' = [rows |-> <<>>, seen |-> seen]
        /\ UNCHANGED <<advantages2d, returns2d, flat, b_inds, mb, chunks>>

(* One iteration of the step loop: obs[step] = next_obs, the agent's       *)
(* answers stored in row step, the environments stepped, their rewards     *)
(* stored and their observations batched into next_obs.                    *)
CollectData ==
    \E outcome \in [EnvInds -> BatchOutcomes] :
        LET after == [e \in EnvInds |-> Observations[outcome[e].next]]
            row == [e \in EnvInds |->
                       [obs |-> taken.seen[e],
                        action |-> outcome[e].action,
                        logprob |-> outcome[e].logprob,
                        value |-> outcome[e].value]]
        IN  /\ obs' = [obs EXCEPT ![step + 1] = next_obs]
            /\ actions' = [actions EXCEPT ![step + 1] = [e \in EnvInds |-> outcome[e].action]]
            /\ logprobs' = [logprobs EXCEPT ![step + 1] = [e \in EnvInds |-> outcome[e].logprob]]
            /\ values' = [values EXCEPT ![step + 1] = [e \in EnvInds |-> outcome[e].value]]
            /\ rewards' = [rewards EXCEPT ![step + 1] = [e \in EnvInds |-> outcome[e].reward]]
            /\ next_obs' = from_data_list(EnvList(after))
            /\ taken' = [rows |-> IF step = 0 THEN <<row>> ELSE Append(taken.rows, row),
                         seen |-> after]
            /\ UNCHANGED <<episode, info, reported, printed>>
            /\ UNCHANGED <<advantages2d, returns2d, flat, b_inds, mb, chunks>>

(* One environment's column of the buffers, for the return computation:   *)
(* no episode ends inside the rollout, and the bootstrap value is 0.       *)
EnvColumn(e) ==
    [rewards |-> [k \in 1..args.num_steps |-> Int2Rat(rewards[k][e])],
     values |-> [k \in 1..args.num_steps |-> Int2Rat(values[k][e])],
     dones |-> [k \in 1..args.num_steps |-> Zero],
     next_value |-> Zero,
     next_done |-> Zero]

(* returns of the branch "else" of "if args.gae", with gamma = 1.          *)
returns_of(e) ==
    discounted_returns([gae |-> FALSE, gamma |-> One, gae_lambda |-> One],
                       EnvColumn(e), 0)

(* returns, advantages = returns - values, then "flatten the batch" and    *)
(* b_inds = np.arange(args.batch_size).                                    *)
FlattenData ==
    LET rets == [k \in 1..args.num_steps |-> [e \in EnvInds |-> returns_of(e)[k]]]
        advs == [k \in 1..args.num_steps |->
                    [e \in EnvInds |-> RSub(rets[k][e], Int2Rat(values[k][e]))]]
    IN  /\ returns2d' = rets
        /\ advantages2d' = advs
        /\ flat' = [b_obs |-> from_data_list(all_obs_raw(obs)),
                    b_logprobs |-> reshape(logprobs),
                    b_actions |-> reshape(actions),
                    b_advantages |-> reshape(advs),
                    b_returns |-> reshape(rets),
                    b_values |-> reshape(values)]
        /\ b_inds' = [i \in 1..batch_size |-> i - 1]
        /\ mb' = NoMinibatch
        /\ chunks' = <<>>
        /\ UNCHANGED <<next_obs, obs, logprobs, values, taken>>

(* The orders np.random.shuffle can leave an array in.                     *)
Shuffles(arr) ==
    {p \in [1..Len(arr) -> {arr[k] : k \in 1..Len(arr)}] :
        \A i, j \in 1..Len(arr) : i # j => p[i] # p[j]}

(* np.random.shuffle(b_inds) at the head of an epoch.                      *)
ShuffleData ==
    /\ b_inds' \in Shuffles(b_inds)
    /\ chunks' = <<>>
    /\ UNCHANGED <<next_obs, obs, logprobs, values, advantages2d, returns2d,
                   taken, flat, mb>>

(* A chunk that always starts at the head of b_inds.                       *)
mb_inds_from_head(inds, from, size) == PySlice(inds, 0, size)

(* end = start + args.minibatch_size; mb_inds = b_inds[start:end]          *)
mb_inds_of(inds, from, size) == PySlice(inds, from, from + size)

(* What one minibatch reads: every tensor indexed with mb_inds.            *)
SelectData ==
    LET mb_inds == mb_inds_of(b_inds, start, minibatch_size)
    IN  /\ mb' = [mb_inds |-> mb_inds,
                  mb_obs |-> index_select(flat.b_obs, mb_inds),
                  mb_logprobs |-> take(flat.b_logprobs, mb_inds),
                  mb_actions |-> take(flat.b_actions, mb_inds),
                  mb_advantages |-> take(flat.b_advantages, mb_inds),
                  mb_returns |-> take(flat.b_returns, mb_inds),
                  mb_values |-> take(flat.b_values, mb_inds)]
        /\ chunks' = Append(chunks, mb_inds)
        /\ UNCHANGED <<next_obs, obs, logprobs, values, advantages2d, returns2d,
                       taken, flat, b_inds>>

InitBatch ==
    \E E \in 1..MaxEnvs, T \in 1..MaxSteps, m \in 1..MaxMinibatches,
       u \in 1..MaxEpochs, k \in BOOLEAN :
        /\ E * T <= MaxCells
        /\ InitArgs([num_envs |-> E, num_steps |-> T, num_minibatches |-> m,
                     update_epochs |-> u, total_timesteps |-> E * T,
                     target_kl |-> k, print_actions |-> FALSE])

SetupBatch == SetupCtl /\ SetupData /\ SetupObs
CollectBatch == StepCtl /\ CollectData
FlattenBatch == BeginLearn /\ FlattenData
ShuffleBatch == EpochStart /\ ShuffleData
SelectBatch == Minibatch /\ SelectData

NextBatch ==
    \/ (SetupBatch /\ UNCHANGED <<encVars, gaeVars>>)
    \/ (StartRollout /\ UNCHANGED <<encVars, gaeVars, batchVars>>)
    \/ (Finish /\ UNCHANGED <<encVars, gaeVars, batchVars>>)
    \/ (CollectBatch /\ UNCHANGED <<encVars, gaeVars>>)
    \/ (FlattenBatch /\ UNCHANGED <<encVars, gaeVars>>)
    \/ (ShuffleBatch /\ UNCHANGED <<encVars, gaeVars>>)
    \/ (EpochsDone /\ UNCHANGED <<encVars, gaeVars, batchVars>>)
    \/ (SelectBatch /\ UNCHANGED <<encVars, gaeVars>>)
    \/ (MinibatchesDone /\ UNCHANGED <<encVars, gaeVars, batchVars>>)
    \/ (KlCheck /\ UNCHANGED <<encVars, gaeVars, batchVars>>)
    \/ (Log /\ UNCHANGED <<encVars, gaeVars, batchVars>>)

SpecBatch == InitBatch /\ [][NextBatch]_vars

-----------------------------------------------------------------------------
(* Properties of the flattened rollout and of the minibatches (SpecBatch). *)
Flattened == flat # NoFlat

(* C11: after flattening, for every step t in [0, num_steps) and           *)
(* environment e in [0, num_envs), index t * num_envs + e of the           *)
(* flattened observations, actions, log-probabilities, advantages,         *)
(* returns and values holds what was recorded for the pair (t, e); every   *)
(* flattened array has batch_size entries.                                 *)
C11_FlattenAligned ==
    Flattened =>
        /\ num_graphs(flat.b_obs) = batch_size
        /\ Len(flat.b_logprobs) = batch_size /\ Len(flat.b_actions) = batch_size
        /\ Len(flat.b_advantages) = batch_size /\ Len(flat.b_returns) = batch_size
        /\ Len(flat.b_values) = batch_size
        /\ \A tt \in 0..(args.num_steps - 1), e \in EnvInds :
              LET i == tt * args.num_envs + e
                  was == taken.rows[tt + 1][e]
              IN  /\ all_obs_raw(obs)[i + 1] = was.obs
                  /\ get_example(flat.b_obs, i) = was.obs
                  /\ flat.b_actions[i + 1] = was.action
                  /\ flat.b_logprobs[i + 1] = was.logprob
                  /\ flat.b_values[i + 1] = was.value
                  /\ flat.b_advantages[i + 1] = advantages2d[tt + 1][e]
                  /\ flat.b_returns[i + 1] = returns2d[tt + 1][e]

(* A flattened rollout of two steps of two environments in which the       *)
(* pairs (0, 1) and (1, 0) differ in the action, and (1, 0) and (1, 1) in  *)
(* the observation and in the advantage.                                   *)
C11_Witness ==
    /\ Flattened
    /\ args.num_envs = 2 /\ args.num_steps = 2
    /\ taken.rows[1][1].action # taken.rows[2][0].action
    /\ taken.rows[2][0].obs # taken.rows[2][1].obs
    /\ advantages2d[2][0] # advantages2d[2][1]
    /\ advantages2d[1][1] # advantages2d[2][0]

Divisible == batch_size % args.num_minibatches = 0
IsPermutation(inds) ==
    /\ Len(inds) = batch_size
    /\ \A i \in 0..(batch_size - 1) : Cardinality({k \in 1..Len(inds) : inds[k] = i}) = 1
(* How many of the epoch's minibatches so far used flattened index i.      *)
UsedIn(i) ==
    Cardinality({c \in 1..Len(chunks) : \E k \in 1..Len(chunks[c]) : chunks[c][k] = i})
EarlyStop == args.target_kl /\ kl_hit_end

(* C12: with batch_size a multiple of num_minibatches and no early stop,   *)
(* every epoch takes exactly num_minibatches gradient steps, on the        *)
(* consecutive chunks of minibatch_size entries of a permutation of        *)
(* [0, batch_size), so that every flattened index is used by exactly one   *)
(* minibatch of the epoch; all update_epochs epochs are run; and each      *)
(* minibatch reads, for each index of its chunk, the graph, action, old    *)
(* log-probability, advantage, return and old value of that index.         *)
C12_MinibatchPartition ==
    Divisible =>
        /\ pc \in {"minibatch", "klcheck"} =>
              /\ IsPermutation(b_inds)
              /\ \A c \in 1..Len(chunks) :
                    chunks[c] = SubSeq(b_inds, (c - 1) * minibatch_size + 1,
                                       c * minibatch_size)
              /\ grad_steps = epoch * args.num_minibatches + Len(chunks)
        /\ pc = "klcheck" =>
              /\ Len(chunks) = args.num_minibatches
              /\ ConcatAll(chunks) = b_inds
              /\ \A i \in 0..(batch_size - 1) : UsedIn(i) = 1
        /\ (pc \in {"log", "loop", "closed"} /\ update = 1 /\ ~EarlyStop) =>
              /\ epoch = args.update_epochs
              /\ grad_steps = args.update_epochs * args.num_minibatches
        /\ mb # NoMinibatch =>
              \A k \in 1..Len(mb.mb_inds) :
                  LET i == mb.mb_inds[k]
                      was == taken.rows[(i \div args.num_envs) + 1][i % args.num_envs]
                  IN  /\ Len(mb.mb_inds) = minibatch_size
                      /\ mb.mb_obs[k] = was.obs
                      /\ mb.mb_actions[k] = was.action
                      /\ mb.mb_logprobs[k] = was.logprob
                      /\ mb.mb_values[k] = was.value
                      /\ mb.mb_advantages[k] =
                             advantages2d[(i \div args.num_envs) + 1][i % args.num_envs]
                      /\ mb.mb_returns[k] =
                             returns2d[(i \div args.num_envs) + 1][i % args.num_envs]

(* An update of two epochs of two minibatches of two entries each that     *)
(* ran to its end, the last epoch on a permutation that is not the         *)
(* identity, the last minibatch reading two different observations.        *)
C12_Witness ==
    /\ pc = "log" /\ ~EarlyStop
    /\ batch_size = 4 /\ args.num_minibatches = 2 /\ args.update_epochs = 2
    /\ grad_steps = 4
    /\ Len(chunks) = 2
    /\ b_inds = <<2, 0, 3, 1>>
    /\ mb.mb_inds = <<3, 1>>
    /\ mb.mb_obs[1] # mb.mb_obs[2]

-----------------------------------------------------------------------------
(* SpecLive: the control flow of main, every step of which is taken in     *)
(* the end: main is a sequential program that runs until it returns or an  *)
(* exception ends it.                                                      *)
SpecLive == Init /\ [][Next]_vars /\ WF_vars(Next)

(* main returned, or an exception ended it.                                *)
Terminated == pc \in {"closed", "crashed"}

(* What holds of the counters in every state.                              *)
CountersInv ==
    /\ update <= num_updates
    /\ global_step <= args.total_timesteps
    /\ global_step = IF update = 0 THEN 0
                     ELSE (update - 1) * batch_size + step * args.num_envs
    /\ pc \in {"learn", "epoch", "minibatch", "klcheck", "log", "crashed"} =>
          (step = args.num_steps /\ global_step = update * batch_size)
    /\ (pc \in {"loop", "closed"} /\ update > 0) =>
          (step = args.num_steps /\ global_step = update * batch_size)
    /\ pc = "closed" => update = num_updates
    /\ pc = "crashed" => (minibatch_size = 0 /\ update = 1 /\ grad_steps = 0)

=============================================================================
